---------------------------- MODULE Spec2Model ----------------------------
(***************************************************************************)
(* Model of src/src/main.rs: the Mandelbrot explorer's view state, its     *)
(* escape-time cache, the dirty-flag recompute in Mandelbrot::draw and     *)
(* Mandelbrot::update, the rasterization into the frame buffer, and the    *)
(* event-loop closure that feeds them.                                     *)
(*                                                                         *)
(* f64 values are binary floating-point numbers m * 2^e, rounded to        *)
(* nearest, ties to even, after every operation, as IEEE-754 does.  The    *)
(* significand holds Precision bits instead of 53.  Underflow is gradual,  *)
(* down to the smallest positive f64, 2^MinExp; the exponent is unbounded  *)
(* upwards: within the bounds of this model no f64 operation overflows.    *)
(***************************************************************************)
EXTENDS Integers, Naturals, Sequences, FiniteSets, TLC

(***************************************************************************)
(* Bounds of the model.                                                    *)
(***************************************************************************)
\* bits of significand of the modelled f64 (53 in the program)
Precision == 8
\* the max_iterations argument of Mandelbrot::new (main passes 200)
MaxIterations == 4
\* largest number of pixels of the window, width * height (main starts at
\* 800 x 800)
MaxPixels == 2
\* pan and zoom commands handled in one run of the program
MaxCommands == 2
\* key handlers run one by one when the view state is followed alone
MaxPresses == 4
\* the kernel is run alone on the points (a/2, b/2), |a|, |b| <= 2 * MaxCoord,
\* with max_iterations in 1 .. MaxIterations
MaxCoord == 2

(***************************************************************************)
(* Floating point: [m |-> significand, e |-> exponent], value m * 2^e,     *)
(* kept canonical (m odd, or m = 0 and e = 0) so that equal values are     *)
(* equal records.                                                          *)
(***************************************************************************)
Abs(n) == IF n < 0 THEN -n ELSE n

Sign(n) == IF n < 0 THEN -1 ELSE 1

Pow2Table == [k \in 0 .. 30 |-> 2 ^ k]

Pow2(k) == Pow2Table[k]

BitLenTable == [n \in 0 .. 255 |-> Cardinality({k \in 0 .. 7 : 2 ^ k <= n})]

\* the number of bits of n, 0 <= n < 2^31
BitLen(n) ==
    IF n < 256 THEN BitLenTable[n]
    ELSE IF n < 65536 THEN 8 + BitLenTable[n \div 256]
    ELSE IF n < 16777216 THEN 16 + BitLenTable[n \div 65536]
    ELSE 24 + BitLenTable[n \div 16777216]

TrailingZerosTable == [n \in 1 .. 255 |-> Cardinality({k \in 1 .. 7 : n % (2 ^ k) = 0})]

\* the number of trailing zero bits of n, 0 < n < 2^31
TrailingZeros(n) ==
    IF n % 256 # 0 THEN TrailingZerosTable[n % 256]
    ELSE IF (n \div 256) % 256 # 0 THEN 8 + TrailingZerosTable[(n \div 256) % 256]
    ELSE IF (n \div 65536) % 256 # 0 THEN 16 + TrailingZerosTable[(n \div 65536) % 256]
    ELSE 24 + TrailingZerosTable[n \div 16777216]

Canon(m, e) ==
    IF m = 0 THEN [m |-> 0, e |-> 0]
    ELSE LET t == TrailingZeros(Abs(m))
         IN  [m |-> Sign(m) * (Abs(m) \div Pow2(t)), e |-> e + t]

Floats == [m : Int, e : Int]

\* The operations below are functions, not operators, so that each
\* argument is evaluated once.

\* the exponent of the smallest positive f64, 2^-1074: below the normal
\* range the values are the multiples of it (gradual underflow)
MinExp == -1074

\* the float nearest to M * 2^E, ties to even: the bits kept are the
\* Precision leading ones, fewer when the value is subnormal
Round[M \in Int, E \in Int] ==
    LET a == Abs(M)
        n == BitLen(a) - Precision
        u == MinExp - E
        s == IF n > u THEN n ELSE u
    IN  IF s <= 0 THEN Canon(M, E)
        ELSE IF s > BitLen(a) THEN [m |-> 0, e |-> 0]
        ELSE LET q    == a \div Pow2(s)
                 r    == a % Pow2(s)
                 half == Pow2(s - 1)
                 up   == r > half \/ (r = half /\ q % 2 = 1)
             IN  Canon(Sign(M) * (IF up THEN q + 1 ELSE q), E + s)

\* `n as f64`
FromInt(n) == Round[n, 0]

FNeg[x \in Floats] == [m |-> -x.m, e |-> x.e]

\* exponent of the bit above the leading bit of x
Top(x) == x.e + BitLen(Abs(x.m))

FAdd[x \in Floats, y \in Floats] ==
    IF x.m = 0 THEN y
    ELSE IF y.m = 0 THEN x
    ELSE IF Top(x) - Top(y) > Precision + 2 THEN x
    ELSE IF Top(y) - Top(x) > Precision + 2 THEN y
    ELSE LET e0 == IF x.e < y.e THEN x.e ELSE y.e
         IN  Round[x.m * Pow2(x.e - e0) + y.m * Pow2(y.e - e0), e0]

FSub[x \in Floats, y \in Floats] == FAdd[x, FNeg[y]]

FMul[x \in Floats, y \in Floats] == Round[x.m * y.m, x.e + y.e]

\* x / y for y # 0: the quotient to Precision + 2 bits and a sticky bit
FDiv[x \in Floats, y \in Floats] ==
    IF x.m = 0 THEN x
    ELSE LET a == Abs(x.m)
             b == Abs(y.m)
             k == 2 * Precision + 2 - BitLen(a)
             n == a * Pow2(k)
             q == 2 * (n \div b) + (IF n % b = 0 THEN 0 ELSE 1)
         IN  Round[Sign(x.m) * Sign(y.m) * q, x.e - y.e - k - 1]

\* x < y, exactly: rounding never changes the sign of a difference
FLt[x \in Floats, y \in Floats] == FSub[x, y].m < 0

FLe[x \in Floats, y \in Floats] == ~FLt[y, x]

\* `x as u8`: truncation toward zero, saturating at 0 and 255
AsU8[x \in Floats] ==
    IF x.m <= 0 THEN 0
    ELSE IF ~FLt[x, FromInt(256)] THEN 255
    ELSE IF x.e >= 0 THEN x.m * Pow2(x.e)
    ELSE IF -x.e > Precision THEN 0
    ELSE x.m \div Pow2(-x.e)

Zero == FromInt(0)

Half == FDiv[FromInt(1), FromInt(2)]

One == FromInt(1)

Two == FromInt(2)

\* the literal 0.05: the float nearest to 1/20
PanFactor == FDiv[FromInt(1), FromInt(20)]

(***************************************************************************)
(* num::complex::Complex<f64>: [re, im], with the crate's component-wise   *)
(* addition and its four-multiplication product.                           *)
(***************************************************************************)
Complex(re, im) == [re |-> re, im |-> im]

Complexes == [re : Floats, im : Floats]

CAdd[a \in Complexes, b \in Complexes] == Complex(FAdd[a.re, b.re], FAdd[a.im, b.im])

CMul[a \in Complexes, b \in Complexes] ==
    Complex(FSub[FMul[a.re, b.re], FMul[a.im, b.im]],
            FAdd[FMul[a.re, b.im], FMul[a.im, b.re]])

\* z.norm() < 2.0.  norm is hypot(re, im); the test is decided on the
\* squares, re*re + im*im < 4, which agrees with it wherever |z| is not
\* within a rounding error of 2, and at |z| = 2 on an axis.
\* variant: the norm test with <= in place of <
NormBelowTwo_inclusive(z) ==
    FLe[FAdd[FMul[z.re, z.re], FMul[z.im, z.im]], FromInt(4)]

NormBelowTwo(z) ==
    FLt[FAdd[FMul[z.re, z.re], FMul[z.im, z.im]], FromInt(4)]

(***************************************************************************)
(* iterate_mandelbrot_point: the loop test, the loop body, the loop, and   *)
(* the returned ratio.                                                     *)
(***************************************************************************)
\* variant: the iteration test with <= in place of <
LoopTest_inclusive(i, z, max) == i <= max /\ NormBelowTwo(z)

LoopTest(i, z, max) == i < max /\ NormBelowTwo(z)

LoopBody(z, c) == CAdd[CMul[z, z], c]

\* the value of i when the loop ends
EscapeCount(c, max) ==
    LET loop[i \in Nat, z \in Complexes] ==
            IF LoopTest(i, z, max) THEN loop[i + 1, LoopBody(z, c)] ELSE i
    IN  loop[0, Complex(Zero, Zero)]

\* variant: the count returned is one less than the iterations run
Ratio_before(i, max) == FDiv[FromInt(i - 1), FromInt(max)]

Ratio(i, max) == FDiv[FromInt(i), FromInt(max)]

iterate_mandelbrot_point(c, max) == Ratio(EscapeCount(c, max), max)

(***************************************************************************)
(* The closure of Mandelbrot::update: the point of pixel index i and its   *)
(* escape-time ratio, under a view v = [zoom, offset, width, height,       *)
(* max_iterations].                                                        *)
(***************************************************************************)
PixelPoint(i, v) ==
    LET ratio == FDiv[FromInt(v.width), FromInt(v.height)]
        x == i % v.width
        y == i \div v.width
    IN  Complex(
          FAdd[FMul[FMul[FSub[FDiv[FromInt(x), FromInt(v.width)], Half],
                         ratio], v.zoom], v.offset.re],
          FAdd[FMul[FSub[FDiv[FromInt(y), FromInt(v.height)], Half],
                    v.zoom], v.offset.im])

PixelValue(i, v) == iterate_mandelbrot_point(PixelPoint(i, v), v.max_iterations)

(***************************************************************************)
(* The loop of Mandelbrot::draw over screen.chunks_exact_mut(4).           *)
(***************************************************************************)
\* the cache index read for chunk i
CacheIndex(i, w) == (i % w) + (i \div w) * w

\* variant: the last chunk is left out
ChunkCount_short(scr) == (Len(scr) \div 4) - 1

\* the number of chunks chunks_exact_mut(4) yields
ChunkCount(scr) == Len(scr) \div 4

Chunks(scr) == 0 .. ChunkCount(scr) - 1

\* some chunk reads the cache out of bounds: the indexing panics
RasterPanics(scr, c, w) == \E i \in Chunks(scr) : CacheIndex(i, w) >= Len(c)

\* variant: the colour byte rounded to nearest
Channel_rounded(r) == AsU8[FAdd[FMul[r, FromInt(255)], Half]]

\* the colour byte of a cached ratio
Channel(r) == AsU8[FMul[r, FromInt(255)]]

Color(r) == <<Channel(r), Channel(r), Channel(r), 255>>

\* the first chunk whose cache read panics
PanicChunk(scr, c, w) ==
    CHOOSE i \in Chunks(scr) :
        /\ CacheIndex(i, w) >= Len(c)
        /\ \A j \in Chunks(scr) : j < i => CacheIndex(j, w) < Len(c)

\* the bytes of the chunks before chunk n
BytesBefore(scr, n) == {b \in 1 .. Len(scr) : (b - 1) \div 4 < n}

\* variant: the colour is added to the byte instead of copied over it
RasterUpTo_blend(scr, c, w, n) ==
    [b \in 1 .. Len(scr) |->
        IF b \in BytesBefore(scr, n)
        THEN (scr[b] + Color(c[CacheIndex((b - 1) \div 4, w) + 1])[((b - 1) % 4) + 1]) % 256
        ELSE scr[b]]

\* the buffer once the chunks before chunk n are overwritten
RasterUpTo(scr, c, w, n) ==
    [b \in 1 .. Len(scr) |->
        IF b \in BytesBefore(scr, n)
        THEN Color(c[CacheIndex((b - 1) \div 4, w) + 1])[((b - 1) % 4) + 1]
        ELSE scr[b]]

\* the buffer after the whole loop, and the bytes the loop writes
Rasterized(scr, c, w) == RasterUpTo(scr, c, w, ChunkCount(scr))

WrittenBytes(scr) == BytesBefore(scr, ChunkCount(scr))

(***************************************************************************)
(* State.                                                                  *)
(*   mandelbrot  the Mandelbrot struct owned by the event-loop closure     *)
(*   screen      the frame of `pixels` handed to draw, a sequence of bytes *)
(*   pc          where the closure is: "idle" between events, "update"    *)
(*               inside the parallel collect of Mandelbrot::update,        *)
(*               "exited" after ControlFlow::Exit, "panicked" after an     *)
(*               out-of-bounds cache read                                  *)
(*   done        the pixel indices whose slot the running collect has     *)
(*               written.  collect_into_vec writes the slots of the        *)
(*               vector's buffer in place and gives the vector its length  *)
(*               at the join; nothing reads the vector in between          *)
(*   call        history: the handler that ran last, "none", "input",      *)
(*               "draw" (without update) or "draw+update"                  *)
(*   written     history: the bytes of screen written by the last draw     *)
(*   commands    history: the pan and zoom commands handled so far         *)
(*   kernel      one run of iterate_mandelbrot_point, step by step         *)
(*   trail       history, kept where the key handlers are run one by one:  *)
(*               each handler run so far with the struct it ran on         *)
(***************************************************************************)
VARIABLES mandelbrot, screen, pc, done, call, written, commands, kernel, trail

vars == <<mandelbrot, screen, pc, done, call, written, commands, kernel, trail>>

\* the window sizes of the model; a side may be 0
Sizes == {size \in (0 .. MaxPixels) \X (0 .. MaxPixels) : size[1] * size[2] <= MaxPixels}

\* resize_surface and resize_buffer refuse an empty texture
SizeValid(size) == size[1] > 0 /\ size[2] > 0

\* WIDTH x HEIGHT: the window starts at the smallest size of the model
InitSize == <<1, 1>>

InitZoom == FromInt(3)

InitOffset == Complex(FNeg[Half], Zero)

\* variant: the struct is constructed with changed false
New_clean(max_iterations, width, height) ==
    [max_iterations |-> max_iterations,
     zoom           |-> InitZoom,
     offset         |-> InitOffset,
     width          |-> width,
     height         |-> height,
     cache          |-> <<>>,
     changed        |-> FALSE,
     resized        |-> TRUE]

\* Mandelbrot::new
New(max_iterations, width, height) ==
    [max_iterations |-> max_iterations,
     zoom           |-> InitZoom,
     offset         |-> InitOffset,
     width          |-> width,
     height         |-> height,
     cache          |-> <<>>,
     changed        |-> TRUE,
     resized        |-> TRUE]

\* the frame of Pixels::new(w, h) and of resize_buffer(w, h): 4*w*h bytes,
\* the old bytes kept and the new ones zero
ResizeBuffer(scr, w, h) ==
    [b \in 1 .. 4 * w * h |-> IF b <= Len(scr) THEN scr[b] ELSE 0]

KernelIdle == [pc |-> "off"]

\* main up to event_loop.run: the frame and the struct are built for the
\* same size, WIDTH x HEIGHT
Constructed(size) ==
    /\ mandelbrot = New(MaxIterations, size[1], size[2])
    /\ screen = ResizeBuffer(<<>>, size[1], size[2])
    /\ pc = "idle"
    /\ done = {}
    /\ call = "none"
    /\ written = {}
    /\ commands = 0
    /\ trail = <<>>

Init ==
    /\ Constructed(InitSize)
    /\ kernel = KernelIdle

(***************************************************************************)
(* The key handlers of the closure, in the order the closure tests them.   *)
(***************************************************************************)
PanStep(m) == FMul[PanFactor, m.zoom]

OnW(m) == [m EXCEPT !.offset.im = FSub[@, PanStep(m)], !.changed = TRUE]

\* variant: A pans by 0.05 whatever the zoom
OnA_unscaled(m) == [m EXCEPT !.offset.re = FSub[@, PanFactor], !.changed = TRUE]

OnA(m) == [m EXCEPT !.offset.re = FSub[@, PanStep(m)], !.changed = TRUE]

OnS(m) == [m EXCEPT !.offset.im = FAdd[@, PanStep(m)], !.changed = TRUE]

\* variant: D pans without setting changed
OnD_unmarked(m) == [m EXCEPT !.offset.re = FAdd[@, PanStep(m)]]

OnD(m) == [m EXCEPT !.offset.re = FAdd[@, PanStep(m)], !.changed = TRUE]

\* variant: R also puts offset back to where it started
OnR_recentre(m) ==
    [m EXCEPT !.zoom = FDiv[@, Two], !.offset = InitOffset, !.changed = TRUE]

OnR(m) == [m EXCEPT !.zoom = FDiv[@, Two], !.changed = TRUE]

\* variant: F halves zoom as R does
OnF_halves(m) == [m EXCEPT !.zoom = FDiv[@, Two], !.changed = TRUE]

OnF(m) == [m EXCEPT !.zoom = FMul[@, Two], !.changed = TRUE]

\* the keys, in the order the closure tests them
KeyOrder == <<"W", "A", "S", "D", "R", "F">>

Keys == {KeyOrder[n] : n \in 1 .. Len(KeyOrder)}

OnKey(k, m) ==
    CASE k = "W" -> OnW(m)
      [] k = "A" -> OnA(m)
      [] k = "S" -> OnS(m)
      [] k = "D" -> OnD(m)
      [] k = "R" -> OnR(m)
      [] k = "F" -> OnF(m)

\* the values of the Mandelbrot struct
Structs ==
    [max_iterations : Nat, zoom : Floats, offset : Complexes,
     width : Nat, height : Nat, cache : Seq(Floats),
     changed : BOOLEAN, resized : BOOLEAN]

\* the struct after the `if input.key_pressed(..)` statements, run in order
\* on the keys pressed
AfterKeys(pressed, m) ==
    LET from[n \in 1 .. Len(KeyOrder) + 1, s \in Structs] ==
            IF n > Len(KeyOrder) THEN s
            ELSE from[n + 1, IF KeyOrder[n] \in pressed THEN OnKey(KeyOrder[n], s)
                             ELSE s]
    IN  from[1, m]

\* variant: the resize does not set resized
OnResized_unflagged(m, w, h) ==
    [m EXCEPT !.width = w, !.height = h, !.changed = TRUE]

\* variant: the resize does not set changed
OnResized_unmarked(m, w, h) ==
    [m EXCEPT !.width = w, !.height = h, !.resized = TRUE]

\* variant: the resize sets resized only when the size differs
OnResized_settled(m, w, h) ==
    [m EXCEPT !.width = w, !.height = h, !.changed = TRUE,
              !.resized = (w # m.width \/ h # m.height)]

\* the Ok arm of resize_surface
OnResized(m, w, h) ==
    [m EXCEPT !.width = w, !.height = h, !.changed = TRUE, !.resized = TRUE]

\* what bounds the model: the key sets an input step may still report
KeySets == {pressed \in SUBSET Keys : commands + Cardinality(pressed) <= MaxCommands}

(***************************************************************************)
(* The closure of event_loop.run, one action per handler; the draw that    *)
(* recomputes is cut at the fork and at the join of the parallel collect.  *)
(***************************************************************************)
\* Escape, Q or a close request: ControlFlow::Exit before any key is read
Quit ==
    /\ pc = "idle"
    /\ pc' = "exited"
    /\ call' = "input"
    /\ UNCHANGED <<mandelbrot, screen, done, written, commands, kernel, trail>>

\* variant: the key handlers run on another thread, also during update
KeyEvent_async(pressed) ==
    /\ pc \in {"idle", "update"}
    /\ mandelbrot' = AfterKeys(pressed, mandelbrot)
    /\ call' = "input"
    /\ commands' = commands + Cardinality(pressed)
    /\ UNCHANGED <<screen, pc, done, written, kernel, trail>>

\* input.update(&event) returned true and no resize is reported: the key
\* handlers, then request_redraw
KeyEvent(pressed) ==
    /\ pc = "idle"
    /\ mandelbrot' = AfterKeys(pressed, mandelbrot)
    /\ call' = "input"
    /\ commands' = commands + Cardinality(pressed)
    /\ UNCHANGED <<screen, pc, done, written, kernel, trail>>

\* the same with a resize reported: the key handlers, resize_surface, the
\* Ok arm, resize_buffer, request_redraw.  failure is "none", "surface"
\* (resize_surface fails: exit) or "buffer" (resize_buffer fails: exit)
ResizeEvent(pressed) ==
    /\ pc = "idle"
    /\ LET keyed == AfterKeys(pressed, mandelbrot)
       IN  \E size \in Sizes, failure \in {"none", "surface", "buffer"} :
                LET surface == SizeValid(size) /\ failure # "surface"
                    buffer  == surface /\ failure # "buffer"
                IN  /\ mandelbrot' = IF surface
                                     THEN OnResized(keyed, size[1], size[2])
                                     ELSE keyed
                    /\ pc' = IF buffer THEN "idle" ELSE "exited"
                    /\ screen' = IF buffer
                                 THEN ResizeBuffer(screen, size[1], size[2])
                                 ELSE screen
                    /\ written' = IF buffer THEN {} ELSE written
    /\ call' = "input"
    /\ commands' = commands + Cardinality(pressed)
    /\ UNCHANGED <<done, kernel, trail>>

\* the loop of draw over the frame, then pixels.render()
Raster(m, renderOk) ==
    IF RasterPanics(screen, m.cache, m.width)
    THEN LET p == PanicChunk(screen, m.cache, m.width)
         IN  /\ screen' = RasterUpTo(screen, m.cache, m.width, p)
             /\ written' = BytesBefore(screen, p)
             /\ pc' = "panicked"
    ELSE /\ screen' = Rasterized(screen, m.cache, m.width)
         /\ written' = WrittenBytes(screen)
         /\ pc' = IF renderOk THEN "idle" ELSE "exited"

\* variant: draw recomputes on every call
NeedsUpdate_always(m) == TRUE

\* `if self.changed`
NeedsUpdate(m) == m.changed

\* RedrawRequested with changed false: draw skips update
DrawClean(renderOk) ==
    /\ pc = "idle"
    /\ ~NeedsUpdate(mandelbrot)
    /\ Raster(mandelbrot, renderOk)
    /\ call' = "draw"
    /\ UNCHANGED <<mandelbrot, done, commands, kernel, trail>>

PixelCount(m) == m.width * m.height

Pixels(m) == 0 .. PixelCount(m) - 1

\* cache.clear(); cache.resize(n, 0.0)
Reallocated(n) == [k \in 1 .. n |-> Zero]

\* the buffer collect_into_vec fills: n slots, those the vector had
\* keeping their value until a worker writes them
CollectTarget(c, n) == [k \in 1 .. n |-> IF k <= Len(c) THEN c[k] ELSE Zero]

\* RedrawRequested with changed true: draw calls update, which reallocates
\* the cache if resized and forks the collect
UpdateBegin ==
    /\ pc = "idle"
    /\ NeedsUpdate(mandelbrot)
    /\ LET n == PixelCount(mandelbrot)
           c == IF mandelbrot.resized THEN Reallocated(n) ELSE mandelbrot.cache
       IN  mandelbrot' = [mandelbrot EXCEPT !.cache = CollectTarget(c, n),
                                            !.resized = FALSE]
    /\ pc' = "update"
    /\ done' = {}
    /\ call' = "draw+update"
    /\ written' = {}
    /\ UNCHANGED <<screen, commands, kernel, trail>>

\* variant: the items are stored in the order the workers finish them
Worker_arrival(i) ==
    /\ pc = "update"
    /\ i \in Pixels(mandelbrot) \ done
    /\ mandelbrot' = [mandelbrot EXCEPT
                          !.cache[Cardinality(done) + 1] = PixelValue(i, mandelbrot)]
    /\ done' = done \cup {i}
    /\ UNCHANGED <<screen, pc, call, written, commands, kernel, trail>>

\* one item of the parallel iterator: a worker computes pixel i and writes
\* its slot
Worker(i) ==
    /\ pc = "update"
    /\ i \in Pixels(mandelbrot) \ done
    /\ mandelbrot' = [mandelbrot EXCEPT !.cache[i + 1] = PixelValue(i, mandelbrot)]
    /\ done' = done \cup {i}
    /\ UNCHANGED <<screen, pc, call, written, commands, kernel, trail>>

\* variant: the collect returns once any item is produced
Joined_early(items, n) == items # {} \/ n = 0

\* the join of the collect: every item has been produced
Joined(items, n) == items = 0 .. n - 1

\* the collect returns: update clears changed, draw rasterizes and presents
UpdateEnd(renderOk) ==
    /\ pc = "update"
    /\ Joined(done, PixelCount(mandelbrot))
    /\ LET m == [mandelbrot EXCEPT !.changed = FALSE]
       IN  /\ mandelbrot' = m
           /\ Raster(m, renderOk)
    /\ done' = {}
    /\ UNCHANGED <<call, commands, kernel, trail>>

Next ==
    \/ Quit
    \/ \E pressed \in KeySets : KeyEvent(pressed)
    \/ \E pressed \in KeySets : ResizeEvent(pressed)
    \/ \E renderOk \in BOOLEAN : DrawClean(renderOk)
    \/ UpdateBegin
    \/ \E i \in 0 .. MaxPixels - 1 : Worker(i)
    \/ \E renderOk \in BOOLEAN : UpdateEnd(renderOk)

Spec == Init /\ [][Next]_vars

\* the loop-body executions of iterate_mandelbrot_point for the pixels in
\* items, under the view of m
LoopSteps(items, m) ==
    LET upto[n \in 0 .. PixelCount(m)] ==
            IF n = 0 THEN 0
            ELSE upto[n - 1] +
                 (IF n - 1 \in items
                  THEN EscapeCount(PixelPoint(n - 1, m), m.max_iterations)
                  ELSE 0)
    IN  upto[PixelCount(m)]

\* the pool runs an item that is ready
Collects == \E i \in 0 .. MaxPixels - 1 : Worker(i)

\* the collect returns to update once it can
Joins == \E renderOk \in BOOLEAN : UpdateEnd(renderOk)

\* the event loop polls: an input update with no key and no resize
Polls == KeyEvent({})

\* variant: the input update ends without request_redraw
RedrawRequested_never(handler) == FALSE

\* the handler that ran last ended with window.request_redraw(), and no
\* draw has answered it yet
RedrawRequested(handler) == handler = "input"

\* the RedrawRequested event that answers request_redraw is delivered
Redraws ==
    /\ RedrawRequested(call)
    /\ (\E renderOk \in BOOLEAN : DrawClean(renderOk)) \/ UpdateBegin

\* the program with its scheduling: rayon's pool runs every item, the
\* collect returns when all are produced, the event loop keeps polling and
\* delivers a redraw that was requested
FairSpec ==
    /\ Spec
    /\ WF_vars(Collects) /\ WF_vars(Joins)
    /\ WF_vars(Polls) /\ WF_vars(Redraws)


(***************************************************************************)
(* iterate_mandelbrot_point run alone, one loop iteration per step, on     *)
(* every point of a grid and every max_iterations of the model.  orbit is  *)
(* history: the values of z the loop body was run on.                      *)
(***************************************************************************)
Grid == {FDiv[FromInt(a), Two] : a \in -2 * MaxCoord .. 2 * MaxCoord}

KernelInit ==
    /\ Constructed(InitSize)
    /\ \E re \in Grid, im \in Grid, max \in 1 .. MaxIterations :
          kernel = [pc |-> "loop", c |-> Complex(re, im), max |-> max,
                    z |-> Complex(Zero, Zero), i |-> 0,
                    orbit |-> <<>>, result |-> Zero]

\* the loop test holds: the body runs
KernelStep ==
    /\ kernel.pc = "loop"
    /\ LoopTest(kernel.i, kernel.z, kernel.max)
    /\ kernel' = [kernel EXCEPT !.z = LoopBody(kernel.z, kernel.c),
                                !.i = kernel.i + 1,
                                !.orbit = Append(kernel.orbit, kernel.z)]
    /\ UNCHANGED <<mandelbrot, screen, pc, done, call, written, commands, trail>>

\* the loop test fails: the ratio is returned
KernelReturn ==
    /\ kernel.pc = "loop"
    /\ ~LoopTest(kernel.i, kernel.z, kernel.max)
    /\ kernel' = [kernel EXCEPT !.pc = "done",
                                !.result = Ratio(kernel.i, kernel.max)]
    /\ UNCHANGED <<mandelbrot, screen, pc, done, call, written, commands, trail>>

KernelNext == KernelStep \/ KernelReturn

KernelSpec == KernelInit /\ [][KernelNext]_vars

\* the stepwise run returns what the operator used by update computes
KernelAgrees ==
    kernel.pc = "done" =>
        kernel.result = iterate_mandelbrot_point(kernel.c, kernel.max)


(***************************************************************************)
(* The key handlers run alone, one key per input update, with the struct   *)
(* each one ran on kept in trail.  The run starts from the constructed     *)
(* struct after R was pressed depth times: zoom is InitZoom halved depth   *)
(* times, which is exact down to the smallest positive f64.                *)
(***************************************************************************)
\* InitZoom after R was pressed depth times, depth <= -MinExp
Halved(depth) == Round[InitZoom.m, InitZoom.e - depth]

\* no press of R, and the last presses that leave zoom a multiple of the
\* smallest positive f64
ZoomDepths == {0, -MinExp - 2, -MinExp - 1, -MinExp}

ViewInit ==
    /\ \E depth \in ZoomDepths :
          mandelbrot = [New(MaxIterations, InitSize[1], InitSize[2])
                            EXCEPT !.zoom = Halved(depth)]
    /\ screen = ResizeBuffer(<<>>, InitSize[1], InitSize[2])
    /\ pc = "idle"
    /\ done = {}
    /\ call = "none"
    /\ written = {}
    /\ commands = 0
    /\ trail = <<>>
    /\ kernel = KernelIdle

\* an input update with key k pressed
Press(k) ==
    /\ pc = "idle"
    /\ Len(trail) < MaxPresses
    /\ mandelbrot' = AfterKeys({k}, mandelbrot)
    /\ trail' = Append(trail, [key |-> k, from |-> mandelbrot])
    /\ call' = "input"
    /\ commands' = commands + 1
    /\ UNCHANGED <<screen, pc, done, written, kernel>>

ViewNext == \E k \in Keys : Press(k)

ViewSpec == ViewInit /\ [][ViewNext]_vars

(***************************************************************************)
(* Properties.                                                             *)
(***************************************************************************)
\* the cache a recompute yields for the view of m
FreshCache(m) == [k \in 1 .. m.width * m.height |-> PixelValue(k - 1, m)]

\* the frame whose pixel k is the grey of c[k]
FrameOf(c) ==
    [b \in 1 .. 4 * Len(c) |->
        IF b % 4 = 0 THEN 255 ELSE AsU8[FMul[c[((b - 1) \div 4) + 1], FromInt(255)]]]

Draws == {"draw", "draw+update"}

\* a step that starts a draw call
DrawStarts == pc = "idle" /\ call' \in Draws

\* a step that returns from a draw call
DrawReturns == (DrawStarts \/ pc = "update") /\ pc' # "update"

\* C1: whenever changed is false, every cache slot holds the escape-time
\* ratio of its pixel under the current zoom, offset, width, height and
\* max_iterations, and the frame is the one rasterized from that cache.
CacheCoherent ==
    ~mandelbrot.changed =>
        /\ mandelbrot.cache = FreshCache(mandelbrot)
        /\ screen = FrameOf(mandelbrot.cache)

\* C1 witness: a pan has been handled and the draw after it has returned
CacheCoherentWitness ==
    /\ pc = "idle"
    /\ call = "draw+update"
    /\ ~mandelbrot.changed
    /\ mandelbrot.offset # InitOffset

\* C2: a draw call recomputes the cache exactly when changed is true at
\* entry; with changed false it leaves the struct as it was and only
\* rasterizes.
RecomputePolicy ==
    [][DrawStarts =>
        /\ (pc' = "update") <=> mandelbrot.changed
        /\ ~mandelbrot.changed =>
            /\ mandelbrot' = mandelbrot
            /\ written' = 1 .. Len(screen)]_vars

\* C2 witness: after some key press was recomputed, a later draw found
\* changed false and returned without recomputing
RecomputePolicyWitness ==
    /\ pc = "idle"
    /\ call = "draw"
    /\ ~mandelbrot.changed
    /\ commands > 0

\* a step that gives the struct another size
Resizes ==
    /\ pc = "idle"
    /\ pc' = "idle"
    /\ <<mandelbrot'.width, mandelbrot'.height>> # <<mandelbrot.width, mandelbrot.height>>

\* C3 as stated: right after a resize to w2 x h2 the cache length is
\* w2 * h2.
ResizeInvariant ==
    [][Resizes => Len(mandelbrot'.cache) = mandelbrot'.width * mandelbrot'.height]_vars

\* C3: a resize raises resized and changed; once the draw that follows has
\* returned (resized is false again) the cache length is width * height, and
\* every slot holds the value recomputed for the view of that draw.
ResizeInvariantOnDraw ==
    /\ [][Resizes => mandelbrot'.resized /\ mandelbrot'.changed]_vars
    /\ [](~mandelbrot.resized /\ pc # "update" =>
            Len(mandelbrot.cache) = mandelbrot.width * mandelbrot.height)
    /\ [][pc = "update" /\ pc' # "update" =>
            mandelbrot'.cache = FreshCache(mandelbrot')]_vars

\* C3 witness: the window went from 1 x 1 to two pixels and the draw after
\* the resize has returned
ResizeInvariantWitness ==
    /\ pc = "idle"
    /\ mandelbrot.width * mandelbrot.height = 2
    /\ ~mandelbrot.resized
    /\ ~mandelbrot.changed
    /\ Len(mandelbrot.cache) = 2

\* C4: draw never indexes the cache out of range: whenever the rasterizing
\* loop runs, the frame is 4 * width * height bytes long and every index
\* x + y * width it forms is below the cache length.
BoundsSafe ==
    /\ pc # "panicked"
    /\ pc = "idle" => Len(screen) = 4 * mandelbrot.width * mandelbrot.height
    /\ (pc = "idle" /\ ~mandelbrot.changed) \/ (pc = "update" /\ done = Pixels(mandelbrot)) =>
        \A i \in 0 .. (Len(screen) \div 4) - 1 :
            (i % mandelbrot.width) + (i \div mandelbrot.width) * mandelbrot.width
                < Len(mandelbrot.cache)

\* C4 witness: a two-pixel frame was rasterized by a draw that did not
\* recompute
BoundsSafeWitness ==
    /\ pc = "idle"
    /\ call = "draw"
    /\ Len(screen) = 8
    /\ written = 1 .. 8

\* C5: every draw call writes every byte of the frame, never changes the
\* frame's length, and sets every alpha byte to 255.
FullRaster ==
    /\ [][DrawStarts \/ pc = "update" => Len(screen') = Len(screen)]_vars
    /\ [][DrawReturns =>
            /\ written' = 1 .. Len(screen)
            /\ \A b \in 1 .. Len(screen) : b % 4 = 0 => screen'[b] = 255]_vars

\* C5 witness: a draw that recomputed has written all eight bytes of a
\* two-pixel frame
FullRasterWitness ==
    /\ pc = "idle"
    /\ call = "draw+update"
    /\ Len(screen) = 8
    /\ written = 1 .. 8

\* C6: a draw call entered with changed false, after an earlier draw and no
\* mutation since, leaves the frame byte-identical and does not recompute.
DrawIdempotent ==
    [][DrawStarts /\ ~mandelbrot.changed =>
        /\ screen' = screen
        /\ pc' # "update"
        /\ call' = "draw"
        /\ mandelbrot'.cache = mandelbrot.cache]_vars

\* C6 witness: a second draw has returned over a frame with a grey pixel
DrawIdempotentWitness ==
    /\ pc = "idle"
    /\ call = "draw"
    /\ ~mandelbrot.changed
    /\ Len(screen) >= 4
    /\ screen[1] \notin {0, 255}

\* the ratios the kernel can return for max iterations
Ratios(max) == {Ratio(i, max) : i \in 0 .. max}

\* pixel k of a frame
PixelOf(scr, k) == <<scr[4 * k - 3], scr[4 * k - 2], scr[4 * k - 1], scr[4 * k]>>

\* n is the integer nearest to p: 2n - 1 <= 2p <= 2n + 1
Nearest(n, p) ==
    /\ FLe[FromInt(2 * n - 1), FMul[Two, p]]
    /\ FLe[FMul[Two, p], FromInt(2 * n + 1)]

\* n is p truncated toward zero, for p >= 0: n <= p < n + 1
Truncated(n, p) == FLe[FromInt(n), p] /\ FLt[p, FromInt(n + 1)]

\* C7 as stated: each rasterized pixel is (n, n, n, 255) with n the integer
\* nearest to r * 255, r its cached ratio.
GreyscaleRounded ==
    ~mandelbrot.changed =>
        \A k \in 1 .. Len(mandelbrot.cache) :
            \E n \in 0 .. 255 :
                /\ PixelOf(screen, k) = <<n, n, n, 255>>
                /\ Nearest(n, FMul[mandelbrot.cache[k], FromInt(255)])

\* C7: each cached ratio is some i / max_iterations with i in
\* 0 .. max_iterations, and its rasterized pixel is (n, n, n, 255) with n the
\* product r * 255 truncated toward zero, so r = 0 gives 0 and r = 1 gives
\* 255.
GreyscaleTruncated ==
    ~mandelbrot.changed =>
        \A k \in 1 .. Len(mandelbrot.cache) :
            /\ mandelbrot.cache[k] \in Ratios(mandelbrot.max_iterations)
            /\ \E n \in 0 .. 255 :
                /\ PixelOf(screen, k) = <<n, n, n, 255>>
                /\ Truncated(n, FMul[mandelbrot.cache[k], FromInt(255)])
                /\ mandelbrot.cache[k] = Zero => n = 0
                /\ mandelbrot.cache[k] = One => n = 255

\* C7 witness: the ratio 1/4 (product 63.75) was rasterized as 63
GreyscaleTruncatedWitness ==
    /\ pc = "idle"
    /\ ~mandelbrot.changed
    /\ Len(mandelbrot.cache) >= 1
    /\ mandelbrot.cache[1] = Ratio(1, 4)
    /\ PixelOf(screen, 1) = <<63, 63, 63, 255>>

\* C8: the iteration count stays in 0 .. max_iterations, so the returned
\* ratio is in [0, 1]; it is 1 only when the loop test held for all
\* max_iterations iterates.
EscapeTimeRange ==
    /\ kernel.pc # "off" => kernel.i \in 0 .. kernel.max
    /\ kernel.pc = "done" =>
        /\ FLe[Zero, kernel.result] /\ FLe[kernel.result, One]
        /\ kernel.result = One =>
            /\ kernel.i = kernel.max
            /\ Len(kernel.orbit) = kernel.max
            /\ \A n \in 1 .. kernel.max : NormBelowTwo(kernel.orbit[n])

\* C8 witness: a point off the origin ran all its iterations and returned 1
EscapeTimeRangeWitness ==
    /\ kernel.pc = "done"
    /\ kernel.result = One
    /\ kernel.max = MaxIterations
    /\ kernel.c # Complex(Zero, Zero)

\* C9: for c = 2 + 0i and max_iterations >= 2 the loop body runs exactly
\* once (the test passes at z = 0 and fails at z = 2, the norm not being
\* below 2), so the result is 1 / max_iterations, which is below 1.
KnownPointTwo ==
    kernel.pc = "done" /\ kernel.c = Complex(Two, Zero) /\ kernel.max >= 2 =>
        /\ kernel.i = 1
        /\ kernel.orbit = <<Complex(Zero, Zero)>>
        /\ kernel.z = Complex(Two, Zero)
        /\ kernel.result = FDiv[One, FromInt(kernel.max)]
        /\ FLt[kernel.result, One]

\* C9 witness: the kernel returned for c = 2 + 0i
KnownPointTwoWitness ==
    /\ kernel.pc = "done"
    /\ kernel.c = Complex(Two, Zero)
    /\ kernel.max >= 2
    /\ kernel.i = 1

\* C10: the recompute runs wholly before the rasterization of its draw
\* call: while it runs changed is true and no byte of the frame is written,
\* and it ends only once every pixel's item is produced, with every slot
\* holding the value for the current view.
ForkJoin ==
    /\ [](pc = "update" => mandelbrot.changed /\ written = {})
    /\ [][pc = "update" /\ pc' = "update" => screen' = screen]_vars
    /\ [][pc = "update" /\ pc' # "update" =>
            /\ done = Pixels(mandelbrot)
            /\ ~mandelbrot'.changed
            /\ mandelbrot'.cache = FreshCache(mandelbrot')
            /\ screen' = FrameOf(mandelbrot'.cache)]_vars

\* C10 witness: both items of a two-pixel recompute are produced and the
\* join is about to happen
ForkJoinWitness ==
    /\ pc = "update"
    /\ PixelCount(mandelbrot) = 2
    /\ done = Pixels(mandelbrot)

\* C11: every recompute terminates, each pixel runs the loop body at most
\* max_iterations times, and the loop-body executions of the recompute sum
\* to at most width * height * max_iterations.
BoundedTermination ==
    /\ [](pc = "update" =>
            /\ \A i \in Pixels(mandelbrot) :
                   LoopSteps({i}, mandelbrot) <= mandelbrot.max_iterations
            /\ LoopSteps(done, mandelbrot)
                   <= PixelCount(mandelbrot) * mandelbrot.max_iterations)
    /\ (pc = "update" ~> pc # "update")

\* C11 witness: a recompute is at its join and its pixels ran every one of
\* their max_iterations loop bodies, so the bound is met with equality
BoundedTerminationWitness ==
    /\ pc = "update"
    /\ done = Pixels(mandelbrot)
    /\ done # {}
    /\ LoopSteps(done, mandelbrot) = PixelCount(mandelbrot) * mandelbrot.max_iterations

\* the last two handlers run were those of keys a and b, in this order
LastTwo(a, b) ==
    /\ Len(trail) >= 2
    /\ trail[Len(trail) - 1].key = a
    /\ trail[Len(trail)].key = b

\* the struct before the last two handlers, and between them
PairStart == trail[Len(trail) - 1].from

PairMiddle == trail[Len(trail)].from

\* x as an integer number of units 2^e0
Scaled(x, e0) == IF x.m = 0 THEN 0 ELSE x.m * Pow2(x.e - e0)

\* the least exponent of the nonzero values among x, y, z
LeastExp(x, y, z) ==
    LET es == {v.e : v \in {w \in {x, y, z} : w.m # 0}}
    IN  IF es = {} THEN 0 ELSE CHOOSE e \in es : \A d \in es : e <= d

\* back differs from start by at most the rounding errors of the two
\* operations start -> mid -> back: 2^-Precision * (|mid| + |back|)
WithinRounding(start, mid, back) ==
    LET e0 == LeastExp(start, mid, back)
    IN  Abs(Scaled(back, e0) - Scaled(start, e0))
            <= (Abs(Scaled(mid, e0)) + Abs(Scaled(back, e0))) \div Pow2(Precision)

\* the handler of the last key ran as a pan by 0.05 * zoom of one
\* component of offset
LastPanMoves ==
    Len(trail) >= 1 =>
        LET k    == trail[Len(trail)].key
            from == trail[Len(trail)].from
            step == FMul[PanFactor, from.zoom]
        IN  /\ k = "A" => mandelbrot.offset = Complex(FSub[from.offset.re, step], from.offset.im)
            /\ k = "D" => mandelbrot.offset = Complex(FAdd[from.offset.re, step], from.offset.im)
            /\ k = "W" => mandelbrot.offset = Complex(from.offset.re, FSub[from.offset.im, step])
            /\ k = "S" => mandelbrot.offset = Complex(from.offset.re, FAdd[from.offset.im, step])
            /\ k \in {"W", "A", "S", "D"} => mandelbrot.zoom = from.zoom

\* C12 as stated: pan-right then pan-left, and pan-up then pan-down, bring
\* offset back exactly to its value before the pair; each pan moves one
\* component of offset by 0.05 * zoom.
PanRoundTrip ==
    /\ LastPanMoves
    /\ LastTwo("D", "A") \/ LastTwo("W", "S") => mandelbrot.offset = PairStart.offset

\* C12: each pan moves one component of offset by the f64 product
\* 0.05 * zoom, the sum being rounded; pan-right then pan-left (pan-up then
\* pan-down) leaves the other component and zoom as they were and brings
\* the moved component back to within the rounding errors of the two
\* additions, 2^-53 * (|value between| + |value after|) for f64, of its
\* value before the pair.
PanRoundTripRounded ==
    /\ LastPanMoves
    /\ LastTwo("D", "A") =>
        /\ mandelbrot.offset.im = PairStart.offset.im
        /\ mandelbrot.zoom = PairStart.zoom
        /\ WithinRounding(PairStart.offset.re, PairMiddle.offset.re, mandelbrot.offset.re)
    /\ LastTwo("W", "S") =>
        /\ mandelbrot.offset.re = PairStart.offset.re
        /\ mandelbrot.zoom = PairStart.zoom
        /\ WithinRounding(PairStart.offset.im, PairMiddle.offset.im, mandelbrot.offset.im)

\* C12 witness: pan-right then pan-left was handled and the real part came
\* back changed by a rounding error
PanRoundTripRoundedWitness ==
    /\ LastTwo("D", "A")
    /\ mandelbrot.offset.re # PairStart.offset.re
    /\ mandelbrot.offset.im = PairStart.offset.im

\* C13 as stated: zoom_in (R) followed by zoom_out (F) restores zoom
\* exactly, from any state, and zoom is strictly positive after any sequence
\* of zoom commands.
ZoomRoundTrip ==
    /\ LastTwo("R", "F") => mandelbrot.zoom = PairStart.zoom
    /\ FLt[Zero, mandelbrot.zoom]

\* half of z is an f64: z is 0 or a multiple of twice the smallest positive
\* value (every normal number is)
HalfExact(z) == z.m = 0 \/ z.e > MinExp

\* C13: zoom is never negative; zoom_in followed by zoom_out restores zoom
\* exactly whenever half of it is an f64, as it is for every normal value; a
\* zoom command leaves a positive zoom positive unless it halves a value
\* whose half is not an f64 (the bottom of the range, past 1070 zoom_in
\* from 3.0), where the half is rounded and can reach 0.
ZoomRoundTripInRange ==
    /\ FLe[Zero, mandelbrot.zoom]
    /\ LastTwo("R", "F") /\ HalfExact(PairStart.zoom) =>
            mandelbrot.zoom = PairStart.zoom
    /\ Len(trail) >= 1 =>
        LET k    == trail[Len(trail)].key
            from == trail[Len(trail)].from
        IN  /\ k = "R" /\ HalfExact(from.zoom) => FMul[mandelbrot.zoom, Two] = from.zoom
            /\ FLt[Zero, from.zoom] /\ (k = "R" => HalfExact(from.zoom)) =>
                    FLt[Zero, mandelbrot.zoom]

\* C13 witness: zoom_in then zoom_out was handled at 3 * 2^-1073, whose half
\* is the last one that is exact, and zoom came back to it
ZoomRoundTripInRangeWitness ==
    /\ LastTwo("R", "F")
    /\ PairStart.zoom = Halved(-MinExp - 1)
    /\ PairMiddle.zoom = Halved(-MinExp)
    /\ mandelbrot.zoom = PairStart.zoom

\* the cache a sequential loop over the indices 0, 1, .. builds from the
\* view of m
SequentialCache(m) ==
    LET built[n \in 0 .. PixelCount(m)] ==
            IF n = 0 THEN <<>>
            ELSE Append(built[n - 1],
                        iterate_mandelbrot_point(PixelPoint(n - 1, m), m.max_iterations))
    IN  built[PixelCount(m)]

\* C14: within a recompute, in whatever order the items run, each step
\* writes the one slot of an index not yet produced and no other, every
\* slot produced holds the value the sequential computation gives it for
\* the view the recompute started with, and at the join the cache is the
\* sequentially computed one.
ParallelDeterminism ==
    /\ [](pc = "update" =>
            /\ done \subseteq Pixels(mandelbrot)
            /\ Len(mandelbrot.cache) = PixelCount(mandelbrot)
            /\ \A i \in done :
                   mandelbrot.cache[i + 1] = SequentialCache(mandelbrot)[i + 1]
            /\ done = Pixels(mandelbrot) =>
                   mandelbrot.cache = SequentialCache(mandelbrot))
    /\ [][pc = "update" /\ pc' = "update" =>
            \E i \in Pixels(mandelbrot) \ done :
                /\ done' = done \cup {i}
                /\ \A k \in 1 .. Len(mandelbrot.cache) :
                       k # i + 1 => mandelbrot'.cache[k] = mandelbrot.cache[k]]_vars

\* C14 witness: of two items the second was produced first, and the two
\* values differ
ParallelDeterminismWitness ==
    /\ pc = "update"
    /\ PixelCount(mandelbrot) = 2
    /\ done = {1}
    /\ SequentialCache(mandelbrot)[1] # SequentialCache(mandelbrot)[2]

\* the view state and the flags of m
View(m) == <<m.zoom, m.offset, m.width, m.height, m.max_iterations, m.changed, m.resized>>

\* C15: while a recompute is in flight no step is an input handler: zoom,
\* offset, width, height and the flags stay as they are, except that the
\* recompute itself clears changed as it ends, and the recompute ends with
\* the return of its draw before any other event is handled.
NoMutationDuringRecompute ==
    [][pc = "update" =>
        /\ \/ pc' = "update" /\ View(mandelbrot') = View(mandelbrot)
           \/ /\ pc' \in {"idle", "exited"}
              /\ View(mandelbrot') = View([mandelbrot EXCEPT !.changed = FALSE])
        /\ call' = "draw+update"
        /\ commands' = commands]_vars

\* C15 witness: a recompute started after a key command is half done
NoMutationDuringRecomputeWitness ==
    /\ pc = "update"
    /\ commands > 0
    /\ PixelCount(mandelbrot) = 2
    /\ done = {0}

\* C16: changed goes from true to false only as a recompute ends inside
\* draw, and resized only as a recompute starts inside draw; no key or
\* resize handler turns either flag from true to false.
SingleWriter ==
    /\ [][mandelbrot.changed /\ ~mandelbrot'.changed =>
            pc = "update" /\ pc' # "update" /\ call' = "draw+update"]_vars
    /\ [][mandelbrot.resized /\ ~mandelbrot'.resized =>
            pc = "idle" /\ pc' = "update" /\ call' = "draw+update"]_vars
    /\ [][call' = "input" =>
            /\ mandelbrot.changed => mandelbrot'.changed
            /\ mandelbrot.resized => mandelbrot'.resized]_vars

\* C16 witness: a draw has cleared both flags and a later key command has
\* set changed again
SingleWriterWitness ==
    /\ pc = "idle"
    /\ call = "input"
    /\ mandelbrot.changed
    /\ ~mandelbrot.resized
    /\ commands > 0

\* C17: between events resized implies changed; after every completed
\* draw both flags are false; and a draw entered with resized true always
\* recomputes, with the cache at the new size.
FlagInvariant ==
    /\ [](pc \in {"idle", "exited"} =>
            /\ mandelbrot.resized => mandelbrot.changed
            /\ call \in Draws => ~mandelbrot.changed /\ ~mandelbrot.resized)
    /\ [][DrawStarts /\ mandelbrot.resized =>
            /\ pc' = "update"
            /\ ~mandelbrot'.resized
            /\ Len(mandelbrot'.cache) = PixelCount(mandelbrot')]_vars

\* C17 witness: the draw that followed a resize to two pixels has returned
\* with both flags false
FlagInvariantWitness ==
    /\ pc = "idle"
    /\ call = "draw+update"
    /\ commands = 0
    /\ PixelCount(mandelbrot) = 2
    /\ ~mandelbrot.changed
    /\ ~mandelbrot.resized

\* an input update, after a draw, that handles exactly one key and no
\* resize (a resize would have emptied the record of the bytes drawn)
SingleKey ==
    /\ pc = "idle" /\ pc' = "idle"
    /\ call' = "input"
    /\ written # {} /\ written' = written
    /\ commands' = commands + 1

\* an input update, after a draw, that handles a resize and no key
OnlyResize ==
    /\ pc = "idle" /\ pc' = "idle"
    /\ call' = "input"
    /\ written # {} /\ written' = {}
    /\ commands' = commands

StalenessRepaired ==
    /\ [][pc = "idle" /\ pc' = "idle" /\ call' = "input" =>
            RedrawRequested(call')]_vars
    /\ mandelbrot.changed ~> (~mandelbrot.changed \/ pc = "exited")

\* C19 witness: a zoom command made the cache stale and the draw that
\* followed has recomputed it
StalenessRepairedWitness ==
    /\ pc = "idle"
    /\ call = "draw+update"
    /\ commands = 1
    /\ mandelbrot.zoom # InitZoom
    /\ ~mandelbrot.changed

\* C20: for every point c and every max_iterations >= 1 the loop test
\* passes at z = 0, so the body runs at least once, and the ratio returned,
\* which is what the recompute stores, is at least 1 / max_iterations and
\* never 0.
MinimumIteration ==
    /\ kernel.pc = "loop" /\ kernel.i = 0 =>
            LoopTest(kernel.i, kernel.z, kernel.max)
    /\ kernel.pc = "done" =>
        /\ kernel.i >= 1
        /\ Len(kernel.orbit) >= 1
        /\ kernel.orbit[1] = Complex(Zero, Zero)
        /\ FLe[FDiv[One, FromInt(kernel.max)], kernel.result]
        /\ FLt[Zero, kernel.result]

\* C20 witness: a point other than 2 + 0i escaped after one iteration and
\* the smallest ratio was returned
MinimumIterationWitness ==
    /\ kernel.pc = "done"
    /\ kernel.c # Complex(Two, Zero)
    /\ kernel.max = MaxIterations
    /\ kernel.i = 1
    /\ kernel.result = FDiv[One, FromInt(MaxIterations)]

=============================================================================
